---------------------------- MODULE Spec2Model ----------------------------
(***************************************************************************)
(* A model of run.py, the command dispatcher of the Azure Sparkle          *)
(* Portfolio repository.                                                   *)
(*                                                                         *)
(* A Python string is modelled as a sequence of one-character strings, so  *)
(* that str.lower, ' '.join, f-string formatting and the word splitting of *)
(* the shell are computed character by character.  One run of the program  *)
(* is the walk of pc from "start" to "done"; Reinvoke starts the program   *)
(* again in the same environment and files the finished run in history.    *)
(***************************************************************************)
EXTENDS Integers, Sequences, FiniteSets, TLC

VARIABLES
    sys_argv,     \* sys.argv: the program name followed by the arguments
    platform,     \* "posix" or "win32": the host the interpreter runs on
    child_fate,   \* how the external command ends in this environment
    pc,           \* the position of the run in main / run_command
    branch,       \* the path of main this run took ("none" before it chose)
    stdout,       \* the strings printed so far, one per print call
    children,     \* the child processes this run started
    exit_status,  \* the exit status of the dispatcher process, -1 while it runs
    history       \* the finished earlier runs in this environment

vars == <<sys_argv, platform, child_fate, pc, branch, stdout, children,
          exit_status, history>>

---------------------------------------------------------------------------
(* Bounds of the model *)

MaxExtraArgs == 1      \* arguments after the first one
MaxRuns == 2           \* invocations of the program in one environment
MaxLowExit == 2        \* the child exit codes 0 .. MaxLowExit are all drawn

---------------------------------------------------------------------------
(* String literals of the program *)

s_npm == <<"n", "p", "m">>
s_run == <<"r", "u", "n">>
s_dev == <<"d", "e", "v">>
s_build == <<"b", "u", "i", "l", "d">>
s_test == <<"t", "e", "s", "t">>
s_test_coverage == <<"t", "e", "s", "t", ":", "c", "o", "v", "e", "r", "a", "g", "e">>
s_lint == <<"l", "i", "n", "t">>
s_format == <<"f", "o", "r", "m", "a", "t">>
s_install == <<"i", "n", "s", "t", "a", "l", "l">>
s_start == <<"s", "t", "a", "r", "t">>
s_swa_start == <<"s", "w", "a", ":", "s", "t", "a", "r", "t">>
s_preview == <<"p", "r", "e", "v", "i", "e", "w">>
s_help == <<"h", "e", "l", "p">>
s_dashdash_help == <<"-", "-", "h", "e", "l", "p">>
s_dash_h == <<"-", "h">>
s_Running == <<"R", "u", "n", "n", "i", "n", "g", ":", " ">>
s_Unknown == <<"U", "n", "k", "n", "o", "w", "n", " ", "c", "o", "m", "m", "a", "n", "d", ":", " ">>
s_Hint == <<"R", "u", "n", " ", "'", "p", "y", "t", "h", "o", "n", " ", "r", "u", "n", ".", "p", "y", " ", "h", "e", "l", "p", "'", " ", "f", "o", "r", " ", "a", "v", "a", "i", "l", "a", "b", "l", "e", " ", "c", "o", "m", "m", "a", "n", "d", "s", ".">>
s_Available == <<"A", "v", "a", "i", "l", "a", "b", "l", "e", " ", "c", "o", "m", "m", "a", "n", "d", "s", ":">>
s_indent == <<" ", " ">>

\* The module docstring: a fixed text, kept as one opaque symbol.
doc == <<"__doc__">>

\* os.path.dirname(os.path.abspath(__file__)): the directory of run.py.
project_dir == "dirname(abspath(__file__))"

\* The dict literal of main, in insertion order.
commands ==
    << [name |-> s_dev,           invocation |-> <<s_npm, s_run, s_dev>>],
       [name |-> s_build,         invocation |-> <<s_npm, s_run, s_build>>],
       [name |-> s_test,          invocation |-> <<s_npm, s_run, s_test>>],
       [name |-> s_test_coverage, invocation |-> <<s_npm, s_run, s_test_coverage>>],
       [name |-> s_lint,          invocation |-> <<s_npm, s_run, s_lint>>],
       [name |-> s_format,        invocation |-> <<s_npm, s_run, s_format>>],
       [name |-> s_install,       invocation |-> <<s_npm, s_install>>],
       [name |-> s_start,         invocation |-> <<s_npm, s_run, s_swa_start>>],
       [name |-> s_preview,       invocation |-> <<s_npm, s_run, s_preview>>] >>

---------------------------------------------------------------------------
(* Strings *)

UpperCase == <<"A", "B", "C", "D", "E", "F", "G", "H", "I", "J", "K", "L", "M", "N", "O", "P", "Q", "R", "S", "T", "U", "V", "W", "X", "Y", "Z">>
LowerCase == <<"a", "b", "c", "d", "e", "f", "g", "h", "i", "j", "k", "l", "m", "n", "o", "p", "q", "r", "s", "t", "u", "v", "w", "x", "y", "z">>

\* str.lower on one character.
LowerChar(c) ==
    IF \E i \in DOMAIN UpperCase : UpperCase[i] = c
    THEN LowerCase[CHOOSE i \in DOMAIN UpperCase : UpperCase[i] = c]
    ELSE c

\* str.lower.
Lower(s) == [i \in 1..Len(s) |-> LowerChar(s[i])]

\* ' '.join(tokens).
RECURSIVE Join(_)
Join(tokens) ==
    IF tokens = <<>> THEN <<>>
    ELSE IF Len(tokens) = 1 THEN tokens[1]
    ELSE tokens[1] \o <<" ">> \o Join(Tail(tokens))

\* The positions of s at which a word begins: a character that is no blank
\* and follows a blank or begins the string.
WordStarts(s) ==
    {i \in 1..Len(s) : s[i] # " " /\ (i = 1 \/ s[i - 1] = " ")}

\* The position at which the word beginning at i ends.
WordEnd(s, i) ==
    IF \E j \in i..Len(s) : s[j] = " "
    THEN (CHOOSE j \in i..Len(s) : s[j] = " " /\ \A k \in i..(j - 1) : s[k] # " ") - 1
    ELSE Len(s)

\* The words a command interpreter splits a command string into.  The
\* strings of the program hold no quote, no escape and no expansion.
ShellWords(s) ==
    [k \in 1..Cardinality(WordStarts(s)) |->
        LET i == CHOOSE x \in WordStarts(s) :
                    Cardinality({y \in WordStarts(s) : y < x}) = k - 1
        IN  SubSeq(s, i, WordEnd(s, i))]

\* sub in s (Python's substring test).
Contains(s, sub) ==
    \E i \in 1..(Len(s) - Len(sub) + 1) : SubSeq(s, i, i + Len(sub) - 1) = sub

StartsWith(s, prefix) ==
    Len(s) >= Len(prefix) /\ SubSeq(s, 1, Len(prefix)) = prefix

---------------------------------------------------------------------------
(* main: the choice of the branch *)

\* Mutant of Normalize: the argument is compared as it was typed.
NormalizeVerbatim(arg) == arg

\* command = sys.argv[1].lower()
Normalize(arg) == Lower(arg)

\* Mutant of IsHelp: the short alias is forgotten.
IsHelpNoShort(command) == command = s_help \/ command = s_dashdash_help

\* command == "help" or command == "--help" or command == "-h"
IsHelp(command) ==
    command = s_help \/ command = s_dashdash_help \/ command = s_dash_h

\* command in commands
InCommands(command) == \E i \in DOMAIN commands : commands[i].name = command

\* commands[command]
Lookup(command) ==
    commands[CHOOSE i \in DOMAIN commands : commands[i].name = command].invocation

\* Mutant of Branch: the help branch is missing, so that a help alias
\* falls through to the table lookup.
BranchWithoutHelp(argv) ==
    IF Len(argv) < 2 THEN "PrintHelp"
    ELSE IF InCommands(Normalize(argv[2])) THEN "Execute"
    ELSE "PrintError"

\* The if statements of main, in their order.
Branch(argv) ==
    IF Len(argv) < 2 THEN "PrintHelp"
    ELSE IF IsHelp(Normalize(argv[2])) THEN "PrintHelpAndList"
    ELSE IF InCommands(Normalize(argv[2])) THEN "Execute"
    ELSE "PrintError"

\* Mutant of Invocation: the trailing arguments are forwarded.
InvocationForwarding(argv) ==
    Lookup(Normalize(argv[2])) \o SubSeq(argv, 3, Len(argv))

\* The list main hands to run_command.
Invocation(argv) == Lookup(Normalize(argv[2]))

---------------------------------------------------------------------------
(* What the branches print *)

\* for cmd in commands: print(f"  {cmd}")
CommandLines == [i \in DOMAIN commands |-> s_indent \o commands[i].name]

\* print(__doc__); print("Available commands:"); the keys.
HelpOutput == <<doc, s_Available>> \o CommandLines

\* Mutant of UsageOutput: the command list is printed without an argument too.
UsageOutputWithList == HelpOutput

\* print(__doc__), when no argument is given.
UsageOutput == <<doc>>

\* Mutant of UnknownOutput: the message shows the argument as it was typed.
UnknownOutputVerbatim(argv) == <<s_Unknown \o argv[2], s_Hint>>

\* print(f"Unknown command: {command}"), then the hint.
UnknownOutput(argv) == <<s_Unknown \o Normalize(argv[2]), s_Hint>>

\* Mutant of RunningLine: the tokens are joined without a separator.
RECURSIVE Concat(_)
Concat(tokens) ==
    IF tokens = <<>> THEN <<>> ELSE tokens[1] \o Concat(Tail(tokens))

RunningLineUnseparated(command) == s_Running \o Concat(command)

\* print(f"Running: {' '.join(command)}")
RunningLine(command) == s_Running \o Join(command)

\* The status main returns on the unknown-command branch.
UnknownStatus == 1

\* The status main returns on the two help branches.
HelpStatus == 0

---------------------------------------------------------------------------
(* run_command: subprocess.run(command, cwd=cwd, shell=True) *)

s_bin_sh == <<"/", "b", "i", "n", "/", "s", "h">>
s_dash_c == <<"-", "c">>
s_cmd_exe == <<"c", "m", "d", ".", "e", "x", "e">>
s_slash_c == <<"/", "c">>

\* subprocess.list2cmdline, for arguments that need no quoting.
list2cmdline(command) == Join(command)

\* The argument vector of the process Popen starts when shell=True and the
\* command is a list.  POSIX: ["/bin/sh", "-c"] + command.  Windows: the
\* list is joined into one command line and handed to the command
\* interpreter after /c.
PopenArgs(command, plat) ==
    IF plat = "posix"
    THEN <<s_bin_sh, s_dash_c>> \o command
    ELSE <<s_cmd_exe, s_slash_c, list2cmdline(command)>>

\* The words of the command the started shell executes: the operand of -c
\* (or /c) is the command string.  On POSIX the items after it only set the
\* shell's $0, $1, ..., which the command string does not read.
ShellExecutes(args) == ShellWords(args[3])

\* Popen: the child process as it starts.
Child(command, plat) ==
    [args     |-> PopenArgs(command, plat),
     executes |-> ShellExecutes(PopenArgs(command, plat)),
     cwd      |-> project_dir,
     status   |-> [kind |-> "running"]]

\* Mutant of Completed: the child is started and not waited for.
CompletedAtOnce(child) == TRUE

\* subprocess.run returns only after the child has ended (Popen.wait).
Completed(child) == child.status.kind # "running"

\* CompletedProcess.returncode: the exit code, or -N for a death by signal N.
\* (A child that has not been waited for has returncode None, and
\* sys.exit(None) is status 0.)
ReturnCode(status) ==
    IF status.kind = "exit" THEN status.code
    ELSE IF status.kind = "signal" THEN 0 - status.sig
    ELSE 0

\* The width of a POSIX exit status.
ExitStatusModulus == 256

\* Mutant of ExitStatus: a failure of the child is reported as status 1.
ExitStatusFlattened(returncode, plat) == IF returncode = 0 THEN 0 ELSE 1

\* sys.exit(main()): the status the dispatcher process ends with.
ExitStatus(returncode, plat) ==
    IF plat = "posix" THEN returncode % ExitStatusModulus ELSE returncode

---------------------------------------------------------------------------
(* The inputs the model draws *)

s_run_py == <<"r", "u", "n", ".", "p", "y">>
s_frobnicate == <<"f", "r", "o", "b", "n", "i", "c", "a", "t", "e">>
s_watch == <<"-", "-", "w", "a", "t", "c", "h">>

UpperChar(c) ==
    IF \E i \in DOMAIN LowerCase : LowerCase[i] = c
    THEN UpperCase[CHOOSE i \in DOMAIN LowerCase : LowerCase[i] = c]
    ELSE c

Upper(s) == [i \in 1..Len(s) |-> UpperChar(s[i])]

\* Upper case at the even positions: "build" -> "bUiLd", "-h" -> "-H".
Mixed(s) == [i \in 1..Len(s) |-> IF i % 2 = 0 THEN UpperChar(s[i]) ELSE s[i]]

CaseVariants(s) == {s, Upper(s), Mixed(s)}

\* First arguments in lower case: every key of the table, the help
\* aliases, and tokens that are neither (the empty string among them).
BaseTokens ==
    {commands[i].name : i \in DOMAIN commands}
    \cup {s_help, s_dashdash_help, s_dash_h}
    \cup {s_frobnicate, s_npm, s_run, <<>>}

FirstArgs == UNION {CaseVariants(s) : s \in BaseTokens}

\* Arguments after the first one.
ExtraTokens == {s_watch}

ExtraArgs == UNION {[1..n -> ExtraTokens] : n \in 0..MaxExtraArgs}

Argvs ==
    {<<s_run_py>>}
    \cup {<<s_run_py, a>> \o extra : a \in FirstArgs, extra \in ExtraArgs}

Platforms == {"posix", "win32"}

\* Exit codes of the child: the low ones, the shell's "command not found"
\* and the largest.
ExitCodes == (0..MaxLowExit) \cup {127, 255}

\* SIGKILL, SIGTERM.
Signals == {9, 15}

Fates(plat) ==
    {[kind |-> "exit", code |-> c] : c \in ExitCodes}
    \cup (IF plat = "posix" THEN {[kind |-> "signal", sig |-> s] : s \in Signals}
          ELSE {})

---------------------------------------------------------------------------
(* The state machine *)

Init ==
    /\ sys_argv \in Argvs
    /\ platform \in Platforms
    /\ child_fate \in Fates(platform)
    /\ pc = "start"
    /\ branch = "none"
    /\ stdout = <<>>
    /\ children = <<>>
    /\ exit_status = -1
    /\ history = <<>>

\* len(sys.argv) < 2: print(__doc__); return 0
NoArgument ==
    /\ pc = "start"
    /\ Branch(sys_argv) = "PrintHelp"
    /\ branch' = "PrintHelp"
    /\ stdout' = stdout \o UsageOutput
    /\ exit_status' = ExitStatus(HelpStatus, platform)
    /\ pc' = "done"
    /\ UNCHANGED <<sys_argv, platform, child_fate, children, history>>

\* help, --help, -h: print the docstring and the keys; return 0
Help ==
    /\ pc = "start"
    /\ Branch(sys_argv) = "PrintHelpAndList"
    /\ branch' = "PrintHelpAndList"
    /\ stdout' = stdout \o HelpOutput
    /\ exit_status' = ExitStatus(HelpStatus, platform)
    /\ pc' = "done"
    /\ UNCHANGED <<sys_argv, platform, child_fate, children, history>>

\* else: print the unknown-command message and the hint; return 1
UnknownCommand ==
    /\ pc = "start"
    /\ Branch(sys_argv) = "PrintError"
    /\ branch' = "PrintError"
    /\ stdout' = stdout \o UnknownOutput(sys_argv)
    /\ exit_status' = ExitStatus(UnknownStatus, platform)
    /\ pc' = "done"
    /\ UNCHANGED <<sys_argv, platform, child_fate, children, history>>

\* command in commands: call run_command, whose first statement prints
\* the invocation.
RunCommandEcho ==
    /\ pc = "start"
    /\ Branch(sys_argv) = "Execute"
    /\ branch' = "Execute"
    /\ \E command \in {Invocation(sys_argv)} :
          stdout' = Append(stdout, RunningLine(command))
    /\ pc' = "run_command"
    /\ UNCHANGED <<sys_argv, platform, child_fate, children, exit_status, history>>

\* subprocess.run starts the child.
SubprocessSpawn ==
    /\ pc = "run_command"
    /\ \E command \in {Invocation(sys_argv)} :
          children' = Append(children, Child(command, platform))
    /\ pc' = "waiting"
    /\ UNCHANGED <<sys_argv, platform, child_fate, branch, stdout, exit_status, history>>

\* The environment: the running child ends as this environment has it end.
ChildTerminates ==
    /\ \E i \in DOMAIN children :
          /\ children[i].status.kind = "running"
          /\ children' = [children EXCEPT ![i].status = child_fate]
    /\ UNCHANGED <<sys_argv, platform, child_fate, pc, branch, stdout, exit_status, history>>

\* subprocess.run returns, run_command and main return the return code,
\* sys.exit ends the process with it.
SubprocessReturn ==
    /\ pc = "waiting"
    /\ Completed(children[Len(children)])
    /\ exit_status' = ExitStatus(ReturnCode(children[Len(children)].status), platform)
    /\ pc' = "done"
    /\ UNCHANGED <<sys_argv, platform, child_fate, branch, stdout, children, history>>

\* What a finished run leaves to be observed.
Outcome ==
    [argv |-> sys_argv, branch |-> branch, stdout |-> stdout,
     children |-> children, exit_status |-> exit_status]

\* Two argument lists that name the same command up to letter case.
SameCommand(a, b) ==
    \/ Len(a) < 2 /\ Len(b) < 2
    \/ Len(a) >= 2 /\ Len(b) >= 2 /\ Lower(a[2]) = Lower(b[2])

\* The user runs the program again in the same environment, naming the same
\* command, possibly in another letter case or with other trailing
\* arguments.
Reinvoke ==
    /\ pc = "done"
    /\ Len(history) + 1 < MaxRuns
    /\ \E a \in Argvs : SameCommand(a, sys_argv) /\ sys_argv' = a
    /\ history' = Append(history, Outcome)
    /\ pc' = "start"
    /\ branch' = "none"
    /\ stdout' = <<>>
    /\ children' = <<>>
    /\ exit_status' = -1
    /\ UNCHANGED <<platform, child_fate>>

\* The steps of the dispatcher process.
Dispatcher ==
    \/ NoArgument
    \/ Help
    \/ UnknownCommand
    \/ RunCommandEcho
    \/ SubprocessSpawn
    \/ SubprocessReturn

\* One run of the program, from its start to its exit.
Run ==
    \/ Dispatcher
    \/ ChildTerminates

Next ==
    \/ Run
    \/ Reinvoke

Spec == Init /\ [][Next]_vars

\* One run: the interpreter keeps executing the program, and the external
\* command is taken to end.
FairSpec ==
    /\ Init
    /\ [][Run]_vars
    /\ WF_vars(Dispatcher)
    /\ WF_vars(ChildTerminates)

---------------------------------------------------------------------------
(* The vocabulary of the properties *)

Done == pc = "done"

HelpAliases == {s_help, s_dashdash_help, s_dash_h}

CommandNames == {commands[i].name : i \in DOMAIN commands}

\* The four guards of the dispatcher's state machine.
ArgumentAbsent(argv) == Len(argv) < 2

HelpRequested(argv) == Len(argv) >= 2 /\ Lower(argv[2]) \in HelpAliases

KnownCommand(argv) == Len(argv) >= 2 /\ Lower(argv[2]) \in CommandNames

UnknownArgument(argv) ==
    Len(argv) >= 2 /\ Lower(argv[2]) \notin HelpAliases \cup CommandNames

\* The table entry of a command name.
TableEntry(name) ==
    (CHOOSE c \in {commands[i] : i \in DOMAIN commands} : c.name = name).invocation

\* The number of printed strings that begin with "Running: ".
EchoLines(out) == Cardinality({i \in DOMAIN out : StartsWith(out[i], s_Running)})

\* Two strings of the same length whose characters agree up to letter case.
DifferOnlyInCase(a, b) ==
    /\ Len(a) = Len(b)
    /\ \A i \in 1..Len(a) :
          \/ a[i] = b[i]
          \/ \E k \in DOMAIN UpperCase :
                {a[i], b[i]} = {UpperCase[k], LowerCase[k]}

\* A finished earlier run and the finished current run agree in everything
\* that can be observed.
SameOutcome(h) ==
    /\ h.branch = branch
    /\ h.stdout = stdout
    /\ h.children = children
    /\ h.exit_status = exit_status

---------------------------------------------------------------------------
(* C1 *)

\* C1: when a command of the table is dispatched, exactly one child process
\* is started and the command it executes is the table entry of that name,
\* token by token.
C1_ChildExecutesTableEntry ==
    (Done /\ KnownCommand(sys_argv)) =>
        /\ Len(children) = 1
        /\ children[1].executes = TableEntry(Lower(sys_argv[2]))

---------------------------------------------------------------------------
(* C2 *)

\* C2: when a command of the table is dispatched and its child process ends
\* with an exit code, the dispatcher ends with that same exit code.
C2_ExitCodePassThrough ==
    (Done /\ KnownCommand(sys_argv)) =>
        /\ Len(children) = 1
        /\ children[1].status.kind = "exit" =>
              exit_status = children[1].status.code

C2_Witness ==
    /\ Done
    /\ KnownCommand(sys_argv)
    /\ Len(children) = 1
    /\ children[1].status = [kind |-> "exit", code |-> 127]
    /\ exit_status = 127

---------------------------------------------------------------------------
(* C3 *)

\* C3, as stated: for an argument that is neither a command nor a help
\* alias, the unknown-command message holds the token exactly as the user
\* supplied it, the hint is printed, no child is started, the status is 1.
C3_MessageHoldsExactToken ==
    (Done /\ UnknownArgument(sys_argv)) =>
        /\ \E i \in DOMAIN stdout :
              StartsWith(stdout[i], s_Unknown) /\ Contains(stdout[i], sys_argv[2])
        /\ \E i \in DOMAIN stdout : stdout[i] = s_Hint
        /\ children = <<>>
        /\ exit_status = 1

\* C3, amended: for an argument that is neither a command nor a help alias,
\* the unknown-command message names the token in lower case, the hint
\* follows, no child is started and the status is 1.
C3_MessageHoldsLoweredToken ==
    (Done /\ UnknownArgument(sys_argv)) =>
        /\ stdout = <<s_Unknown \o Lower(sys_argv[2]), s_Hint>>
        /\ children = <<>>
        /\ exit_status = 1

C3_Witness ==
    /\ Done
    /\ UnknownArgument(sys_argv)
    /\ sys_argv[2] # Lower(sys_argv[2])
    /\ stdout = <<s_Unknown \o s_frobnicate, s_Hint>>
    /\ exit_status = 1

---------------------------------------------------------------------------
(* C4 *)

\* C4: for help, --help or -h in any letter case the run takes the help
\* branch, prints the usage text and then, behind the heading, every key of
\* the table in the table's order, one per print, starts no child process
\* and ends with status 0.
C4_HelpListsEveryCommand ==
    (Done /\ HelpRequested(sys_argv)) =>
        /\ branch = "PrintHelpAndList"
        /\ Len(stdout) = 2 + Len(commands)
        /\ stdout[1] = doc
        /\ \A i \in DOMAIN commands : stdout[2 + i] = s_indent \o commands[i].name
        /\ Len(commands) = 9
        /\ children = <<>>
        /\ exit_status = 0

C4_Witness ==
    /\ Done
    /\ HelpRequested(sys_argv)
    /\ sys_argv[2] = <<"-", "H">>
    /\ Len(stdout) = 11
    /\ exit_status = 0

---------------------------------------------------------------------------
(* C5 *)

\* C5: without an argument the output is the usage text and nothing else,
\* no child process is started and the status is 0.
C5_NoArgumentPrintsUsageOnly ==
    (Done /\ ArgumentAbsent(sys_argv)) =>
        /\ stdout = <<doc>>
        /\ children = <<>>
        /\ exit_status = 0

C5_Witness ==
    /\ Done
    /\ ArgumentAbsent(sys_argv)
    /\ branch = "PrintHelp"
    /\ stdout = <<doc>>

---------------------------------------------------------------------------
(* C6 *)

\* C6: two runs in the same environment whose first arguments differ only
\* in letter case, the other arguments being equal, take the same branch,
\* print the same output, start the same child invocation (or none) and end
\* with the same status.
C6_CaseInsensitive ==
    \A n \in DOMAIN history :
        ( /\ Done
          /\ Len(history[n].argv) >= 2
          /\ Len(sys_argv) >= 2
          /\ DifferOnlyInCase(history[n].argv[2], sys_argv[2])
          /\ SubSeq(history[n].argv, 3, Len(history[n].argv))
                = SubSeq(sys_argv, 3, Len(sys_argv)) )
        => SameOutcome(history[n])

C6_Witness ==
    /\ Done
    /\ branch = "Execute"
    /\ \E n \in DOMAIN history :
          /\ Len(history[n].argv) >= 2
          /\ history[n].argv[2] = <<"B", "U", "I", "L", "D">>
          /\ sys_argv[2] = s_build
          /\ Tail(Tail(history[n].argv)) = Tail(Tail(sys_argv))
          /\ SameOutcome(history[n])

---------------------------------------------------------------------------
(* C7 *)

\* C7: a run never has more than one child, the child it has is started
\* exactly when the argument names a command of the table, and the run does
\* not end while its child is still running.
C7_AtMostOneChildAndWaited ==
    /\ Len(children) <= 1
    /\ children # <<>> => KnownCommand(sys_argv)
    /\ Done =>
          /\ Len(children) = (IF KnownCommand(sys_argv) THEN 1 ELSE 0)
          /\ \A i \in DOMAIN children : children[i].status.kind # "running"

C7_Witness ==
    /\ Done
    /\ KnownCommand(sys_argv)
    /\ Len(children) = 1
    /\ children[1].status.kind = "signal"

---------------------------------------------------------------------------
(* C8 *)

---------------------------------------------------------------------------
(* C9 *)

\* The position of a run in the dispatcher's state machine.
Rank(p) ==
    CASE p = "start" -> 0
      [] p = "run_command" -> 1
      [] p = "waiting" -> 2
      [] p = "done" -> 3

\* The number of the four guards that hold of an argument list.
GuardsThatHold(argv) ==
    Cardinality({g \in {"absent", "help", "known", "unknown"} :
        \/ g = "absent" /\ ArgumentAbsent(argv)
        \/ g = "help" /\ HelpRequested(argv)
        \/ g = "known" /\ KnownCommand(argv)
        \/ g = "unknown" /\ UnknownArgument(argv)})

\* The path the guards name.
PathOf(argv) ==
    CASE ArgumentAbsent(argv) -> "PrintHelp"
      [] HelpRequested(argv) -> "PrintHelpAndList"
      [] KnownCommand(argv) -> "Execute"
      [] UnknownArgument(argv) -> "PrintError"

\* C9: exactly one of the four guards holds of every argument list and the
\* run takes the path of that guard; the dispatcher only moves forward from
\* Start to End; a run that has started reaches End, the child process
\* being taken to end; the status is 0 on the two help paths and 1 on the
\* error path, and only the error path sets a status of its own making
\* other than 0.
C9_FourPathsAndTermination ==
    /\ [](/\ GuardsThatHold(sys_argv) = 1
          /\ branch # "none" => branch = PathOf(sys_argv)
          /\ Done =>
                /\ branch # "none"
                /\ branch \in {"PrintHelp", "PrintHelpAndList"} => exit_status = 0
                /\ branch = "PrintError" => exit_status = 1
                /\ branch = "Execute" =>
                      /\ Len(children) = 1
                      /\ children[1].status.kind = "exit" =>
                            exit_status = children[1].status.code)
    /\ [][pc' # pc /\ Len(history') = Len(history) => Rank(pc') > Rank(pc)]_vars
    /\ (pc = "start" ~> Done)

C9_Witness ==
    /\ Done
    /\ branch = "Execute"
    /\ Len(children) = 1
    /\ children[1].status = [kind |-> "exit", code |-> 1]
    /\ exit_status = 1

---------------------------------------------------------------------------
(* C10 *)

\* C10: two runs in the same environment with the same first argument agree
\* in branch, output, child invocation and status whatever follows the
\* first argument, and no argument after the first reaches the child.
C10_OnlyFirstArgumentMatters ==
    /\ \A n \in DOMAIN history :
          ( /\ Done
            /\ Len(history[n].argv) >= 2
            /\ Len(sys_argv) >= 2
            /\ history[n].argv[2] = sys_argv[2] )
          => SameOutcome(history[n])
    /\ \A i \in DOMAIN children :
          \A k \in 3..Len(sys_argv) :
             /\ \A j \in DOMAIN children[i].args :
                   ~Contains(children[i].args[j], sys_argv[k])
             /\ \A j \in DOMAIN children[i].executes :
                   ~Contains(children[i].executes[j], sys_argv[k])

C10_Witness ==
    /\ Done
    /\ branch = "Execute"
    /\ Len(sys_argv) = 3
    /\ \E n \in DOMAIN history :
          /\ history[n].argv = SubSeq(sys_argv, 1, 2)
          /\ SameOutcome(history[n])

=============================================================================
